---- MODULE Spec2Model ----
(***************************************************************************)
(* A model of parse.py, the .DS_Store decoder: class DSStore (the byte     *)
(* cursor, parse_header, parse_allocator, parse_tree, parse_data) and      *)
(* class Record.  Buffers are sequences of bytes; Python's str and bytes   *)
(* values are sequences of code points / bytes; Python's exceptions are    *)
(* the strings IndexError, ValueError, NotImplementedError,                *)
(* UnicodeDecodeError and RecursionError.                                  *)
(***************************************************************************)
EXTENDS Integers, Sequences, FiniteSets, TLC

\* ------------------------------------------------------------------------
\* Bounds of the model
\* ------------------------------------------------------------------------
\* the interpreter's recursion limit (sys.getrecursionlimit()), scaled down
MaxDepth == 5
\* the largest number of entries of a generated leaf node
MaxK == 2

\* ------------------------------------------------------------------------
\* Program constants
\* ------------------------------------------------------------------------
HeaderBase == 4
TocOffset == 1032
NumFreeLists == 32
MagicBud1 == 1114989617
PageSize == 4096

\* ASCII texts of the program, as code points
DSDB == <<68, 83, 68, 66>>
T_bool == <<98, 111, 111, 108>>
T_shor == <<115, 104, 111, 114>>
T_long == <<108, 111, 110, 103>>
T_comp == <<99, 111, 109, 112>>
T_dutc == <<100, 117, 116, 99>>
T_type == <<116, 121, 112, 101>>
T_blob == <<98, 108, 111, 98>>
T_ustr == <<117, 115, 116, 114>>

Min(a, b) == IF a < b THEN a ELSE b

\* ------------------------------------------------------------------------
\* Python primitives used by the decoder
\* ------------------------------------------------------------------------
\* buf[c:c + n]: a slice never fails, it is cut at the end of the buffer
Slice(buf, c, n) ==
    IF c >= Len(buf) \/ n <= 0 THEN <<>>
    ELSE SubSeq(buf, c + 1, Min(c + n, Len(buf)))

\* int.from_bytes(bs, 'big', signed=False); the empty sequence gives 0
RECURSIVE FromBytes(_)
FromBytes(bs) ==
    IF bs = <<>> THEN 0
    ELSE FromBytes(SubSeq(bs, 1, Len(bs) - 1)) * 256 + bs[Len(bs)]

\* bytes.decode('ascii') succeeds iff every byte is below 0x80
AsciiOk(bs) == \A i \in 1..Len(bs) : bs[i] < 128

IsHighSurrogate(u) == u >= 55296 /\ u <= 56319
IsLowSurrogate(u) == u >= 56320 /\ u <= 57343

\* the 16-bit big-endian code units of an even-length byte sequence
CodeUnits(bs) == [i \in 1..(Len(bs) \div 2) |-> bs[2 * i - 1] * 256 + bs[2 * i]]

\* bytes.decode('utf-16be') on code units: <<ok, code points>>
RECURSIVE DecodeUnits(_)
DecodeUnits(us) ==
    IF us = <<>> THEN [ok |-> TRUE, str |-> <<>>]
    ELSE IF IsLowSurrogate(us[1]) THEN [ok |-> FALSE, str |-> <<>>]
    ELSE IF IsHighSurrogate(us[1]) THEN
        IF Len(us) >= 2 /\ IsLowSurrogate(us[2]) THEN
            LET rest == DecodeUnits(SubSeq(us, 3, Len(us)))
                cp == 65536 + (us[1] - 55296) * 1024 + (us[2] - 56320)
            IN [ok |-> rest.ok, str |-> <<cp>> \o rest.str]
        ELSE [ok |-> FALSE, str |-> <<>>]
    ELSE LET rest == DecodeUnits(SubSeq(us, 2, Len(us)))
         IN [ok |-> rest.ok, str |-> <<us[1]>> \o rest.str]

\* bytes.decode('utf-16be'): an odd number of bytes is truncated data
DecodeUtf16(bs) ==
    IF Len(bs) % 2 = 1 THEN [ok |-> FALSE, str |-> <<>>]
    ELSE DecodeUnits(CodeUnits(bs))

\* dict[key] = value on an insertion-ordered dict, kept as <<key, value>> pairs
DictHas(d, k) == \E i \in 1..Len(d) : d[i][1] = k
DictGet(d, k) == d[CHOOSE i \in 1..Len(d) : d[i][1] = k][2]
DictSet(d, k, v) ==
    IF DictHas(d, k)
    THEN [i \in 1..Len(d) |-> IF d[i][1] = k THEN <<k, v>> ELSE d[i]]
    ELSE Append(d, <<k, v>>)

\* offset_and_size >> 0x5 << 0x5
BlockOffset(e) == (e \div 32) * 32


\* ------------------------------------------------------------------------
\* State
\* ------------------------------------------------------------------------
VARIABLES
    content,          \* the module-level buffer read by next_byte/next_bytes
    self_content,     \* the buffer handed to DSStore(content)
    cursor,           \* self.cursor
    records,          \* self.records, a sequence of [name, fields]
    pc,               \* the statement of parse() the decode is at
    err,              \* the exception that ended the decode, or "none"
    failedAt,         \* history: the stage of parse() that raised it
    warnings,         \* the diagnostics emitted by warnings.warn
    allocator_offset, allocator_length,
    offsets, directory, master_id, freelist,
    root_id, tree_height, num_records, num_nodes,
    stack,            \* the active calls of parse_tree, innermost last
    shortRead,        \* history: some read was given fewer bytes than asked
    emitted,          \* history: the (name, field, value) triples, in order
    lastData,         \* history: the last call of parse_data
    nodesRead,        \* history: the number of tree blocks sought
    run, firstResult  \* history: the decode's number and the first outcome

hdr == <<allocator_offset, allocator_length>>
alloc == <<offsets, directory, master_id, freelist>>
mast == <<root_id, tree_height, num_records, num_nodes>>
hist == <<shortRead, emitted, lastData, nodesRead>>
runs == <<run, firstResult>>
vars == <<content, self_content, cursor, records, pc, err, failedAt, warnings,
          hdr, alloc, mast, stack, hist, runs>>

\* ------------------------------------------------------------------------
\* The byte cursor: next_bytes, next_uint32, next_uint64, next_byte
\* ------------------------------------------------------------------------
\* next_bytes(n) at cursor c; the cursor becomes c + n in every case
NextBytes(c, n) == Slice(content, c, n)
NextUint32(c) == FromBytes(NextBytes(c, 4))
NextUint64(c) == FromBytes(NextBytes(c, 8))
\* next_byte() at cursor c raises IndexError iff c is not an index
NextByteOk(c) == c < Len(content)
NextByte(c) == content[c + 1]
\* a read of n bytes at c that the buffer cannot serve in full
IsShort(c, n) == n > 0 /\ c + n > Len(content)

\* ------------------------------------------------------------------------
\* parse_header
\* ------------------------------------------------------------------------
\* an allocator offset taken from the repeated copy
HeaderAllocatorOffset_Repeat(c) == HeaderBase + NextUint32(c + 16)

\* the allocator offset taken from the header that starts at c
HeaderAllocatorOffset(c) == HeaderBase + NextUint32(c + 8)
HeaderOffsetRepeat(c) == HeaderBase + NextUint32(c + 16)

HeaderWarnings(c) ==
    (IF NextUint32(c) # 1 THEN {"alignment"} ELSE {})
    \cup (IF NextUint32(c + 4) # MagicBud1 THEN {"magic"} ELSE {})
    \cup (IF HeaderOffsetRepeat(c) # HeaderAllocatorOffset(c)
          THEN {"offset_repeat"} ELSE {})

ParseHeader ==
    /\ pc = "parse_header"
    /\ allocator_offset' = HeaderAllocatorOffset(cursor)
    /\ allocator_length' = NextUint32(cursor + 12)
    /\ warnings' = warnings \cup HeaderWarnings(cursor)
    /\ cursor' = cursor + 20
    /\ shortRead' = (shortRead \/ IsShort(cursor, 20))
    /\ pc' = "allocator_offsets"
    /\ UNCHANGED <<content, self_content, records, err, failedAt, alloc, mast, stack,
                   emitted, lastData, nodesRead, runs>>

\* ------------------------------------------------------------------------
\* parse_allocator
\* ------------------------------------------------------------------------
\* lines 370-378: the offset table
AllocatorOffsets ==
    /\ pc = "allocator_offsets"
    /\ LET c == allocator_offset
           n == NextUint32(c)
           second == NextUint32(c + 4)
       IN /\ offsets' = [i \in 1..n |-> NextUint32(c + 8 + 4 * (i - 1))]
          /\ warnings' = warnings \cup
                (IF second # 0 THEN {"allocator_second"} ELSE {})
          /\ cursor' = c + 8 + 4 * n
          /\ shortRead' = (shortRead \/ IsShort(c, 8 + 4 * n))
    /\ pc' = "allocator_directory"
    /\ UNCHANGED <<content, self_content, records, err, failedAt, hdr, directory,
                   master_id, freelist, mast, stack, emitted, lastData,
                   nodesRead, runs>>

\* lines 385-391: the remaining n keys of the table of contents, read at c
RECURSIVE ReadKeys(_, _, _, _, _)
ReadKeys(c, n, dir, warns, short) ==
    IF n = 0 THEN
        [err |-> "none", cursor |-> c, dir |-> dir, warns |-> warns,
         short |-> short]
    ELSE IF ~NextByteOk(c) THEN
        [err |-> "IndexError", cursor |-> c, dir |-> dir, warns |-> warns,
         short |-> TRUE]
    ELSE
        LET key_length == NextByte(c)
            keyBytes == NextBytes(c + 1, key_length)
            c2 == c + 1 + key_length
            short2 == short \/ IsShort(c + 1, key_length)
        IN IF ~AsciiOk(keyBytes) THEN
               [err |-> "UnicodeDecodeError", cursor |-> c2, dir |-> dir,
                warns |-> warns, short |-> short2]
           ELSE
               ReadKeys(c2 + 4, n - 1,
                        DictSet(dir, keyBytes, NextUint32(c2)),
                        IF keyBytes # DSDB THEN warns \cup {"directory_key"}
                        ELSE warns,
                        short2 \/ IsShort(c2, 4))

\* a lookup that takes the first entry of the table of contents
MasterIdOf_FirstEntry(dir) == dir[1][2]

\* line 396: the id of the master block
MasterIdOf(dir) == DictGet(dir, DSDB)

\* lines 380-396: the table of contents and the master block id
AllocatorDirectory ==
    /\ pc = "allocator_directory"
    /\ LET c == allocator_offset + TocOffset
           num_keys == NextUint32(c)
           r == ReadKeys(c + 4, num_keys, <<>>, warnings,
                         shortRead \/ IsShort(c, 4))
       IN /\ directory' = r.dir
          /\ warnings' = r.warns
          /\ cursor' = r.cursor
          /\ shortRead' = r.short
          /\ IF r.err # "none" THEN
                 /\ err' = r.err
                 /\ failedAt' = pc
                 /\ pc' = "failed"
                 /\ UNCHANGED master_id
             ELSE IF ~DictHas(r.dir, DSDB) THEN
                 /\ err' = "ValueError"
                 /\ failedAt' = pc
                 /\ pc' = "failed"
                 /\ UNCHANGED master_id
             ELSE
                 /\ master_id' = MasterIdOf(r.dir)
                 /\ pc' = "allocator_freelist"
                 /\ UNCHANGED <<err, failedAt>>
    /\ UNCHANGED <<content, self_content, records, hdr, offsets, freelist,
                   mast, stack, emitted, lastData, nodesRead, runs>>

\* lines 400-403: the free lists i..31, read at c
RECURSIVE ReadFreeLists(_, _, _)
ReadFreeLists(c, i, lists) ==
    IF i = NumFreeLists THEN [cursor |-> c, lists |-> lists]
    ELSE LET values_length == NextUint32(c)
             values == [j \in 1..values_length |->
                            NextUint32(c + 4 + 4 * (j - 1))]
         IN ReadFreeLists(c + 4 + 4 * values_length, i + 1,
                          Append(lists, values))

AllocatorFreelist ==
    /\ pc = "allocator_freelist"
    /\ LET r == ReadFreeLists(cursor, 0, <<>>)
       IN /\ freelist' = r.lists
          /\ cursor' = r.cursor
          /\ shortRead' = (shortRead \/ r.cursor > Len(content))
    /\ pc' = "parse_tree"
    /\ UNCHANGED <<content, self_content, records, err, failedAt, warnings, hdr,
                   offsets, directory, master_id, mast, stack, emitted,
                   lastData, nodesRead, runs>>


\* ------------------------------------------------------------------------
\* parse_data
\* ------------------------------------------------------------------------
\* the Python values: bool, int, str and bytes, each with its content as a
\* sequence of numbers
BoolValue(b) == [type |-> "bool", val |-> <<b>>]
IntValue(n) == [type |-> "int", val |-> <<n>>]
StrValue(s) == [type |-> "str", val |-> s]
BytesValue(bs) == [type |-> "bytes", val |-> bs]
NoValue == [type |-> "none", val |-> <<>>]

Raised(e, c, short) ==
    [err |-> e, value |-> NoValue, cursor |-> c, short |-> short]
Returned(v, c, short) ==
    [err |-> "none", value |-> v, cursor |-> c, short |-> short]

\* a 'shor' decoded as the 16-bit value its name suggests
ShortOrLong_16Bit(c) == NextUint32(c) % 65536

\* line 461: the value of a 'shor' or 'long' payload read at c
ShortOrLong(c) == NextUint32(c)

\* an unknown tag that is skipped with no value
UnknownTag_ReturnsNone(c, short) == Returned(NoValue, c, short)

\* lines 474-475: the tag read up to c is none of the eight
UnknownTag(c, short) == Raised("NotImplementedError", c, short)

\* lines 455-475, called with the cursor at c
ParseData(c) ==
    LET tagBytes == NextBytes(c, 4)
        c1 == c + 4
        s1 == IsShort(c, 4)
    IN IF ~AsciiOk(tagBytes) THEN Raised("UnicodeDecodeError", c1, s1)
       ELSE IF tagBytes = T_bool THEN
           IF NextByteOk(c1)
           THEN Returned(BoolValue(NextByte(c1) % 2), c1 + 1, s1)
           ELSE Raised("IndexError", c1, TRUE)
       ELSE IF tagBytes \in {T_shor, T_long} THEN
           Returned(IntValue(ShortOrLong(c1)), c1 + 4, s1 \/ IsShort(c1, 4))
       ELSE IF tagBytes \in {T_comp, T_dutc} THEN
           Returned(IntValue(NextUint64(c1)), c1 + 8, s1 \/ IsShort(c1, 8))
       ELSE IF tagBytes = T_type THEN
           LET bs == NextBytes(c1, 4)
           IN IF AsciiOk(bs)
              THEN Returned(StrValue(bs), c1 + 4, s1 \/ IsShort(c1, 4))
              ELSE Raised("UnicodeDecodeError", c1 + 4, s1 \/ IsShort(c1, 4))
       ELSE IF tagBytes = T_blob THEN
           LET data_length == NextUint32(c1)
               s2 == s1 \/ IsShort(c1, 4) \/ IsShort(c1 + 4, data_length)
           IN Returned(BytesValue(NextBytes(c1 + 4, data_length)),
                       c1 + 4 + data_length, s2)
       ELSE IF tagBytes = T_ustr THEN
           LET data_length == NextUint32(c1)
               s2 == s1 \/ IsShort(c1, 4) \/ IsShort(c1 + 4, 2 * data_length)
               d == DecodeUtf16(NextBytes(c1 + 4, 2 * data_length))
           IN IF d.ok
              THEN Returned(StrValue(d.str), c1 + 4 + 2 * data_length, s2)
              ELSE Raised("UnicodeDecodeError", c1 + 4 + 2 * data_length, s2)
       ELSE UnknownTag(c1, s1)

\* ------------------------------------------------------------------------
\* Record and the merge of parse_tree
\* ------------------------------------------------------------------------
\* Record(name, {field: data})
NewRecord(name, field, data) == [name |-> name, fields |-> <<<<field, data>>>>]
\* record.update({field: data})
Update(record, field, data) ==
    [record EXCEPT !.fields = DictSet(record.fields, field, data)]

\* a merge that adds a record for every entry
Insert_AlwaysAppend(recs, name, field, data) ==
    Append(recs, NewRecord(name, field, data))

\* lines 445-450: the first record of that name is updated, else one is added
Insert(recs, name, field, data) ==
    IF \E i \in 1..Len(recs) : recs[i].name = name
    THEN LET first == CHOOSE i \in 1..Len(recs) :
                         /\ recs[i].name = name
                         /\ \A j \in 1..(i - 1) : recs[j].name # name
         IN [recs EXCEPT ![first] = Update(recs[first], field, data)]
    ELSE Append(recs, NewRecord(name, field, data))

\* ------------------------------------------------------------------------
\* parse_tree
\* ------------------------------------------------------------------------
\* a call of parse_tree(node_id=id); the master call has master = TRUE
Frame(id, master) ==
    [node_id |-> id, master |-> master, pc |-> "enter", next_id |-> 0,
     num_records |-> 0, i |-> 0, current_cursor |-> 0, log |-> <<>>]

Top == stack[Len(stack)]
SetTop(f) == [stack EXCEPT ![Len(stack)] = f]
\* a further call is possible below the interpreter's recursion limit
CanCall == Len(stack) < MaxDepth

Fail(e) ==
    /\ err' = e
    /\ failedAt' = pc
    /\ pc' = "failed"
    /\ stack' = <<>>

\* line 480: parse() calls parse_tree()
CallParseTree ==
    /\ pc = "parse_tree"
    /\ stack' = <<Frame(master_id, TRUE)>>
    /\ pc' = "in_tree"
    /\ UNCHANGED <<content, self_content, cursor, records, err, failedAt, warnings,
                   hdr, alloc, mast, hist, runs>>

\* lines 415-416 fail: node_id is not an index of the offset table
EnterBadBlock ==
    /\ pc = "in_tree" /\ Top.pc = "enter"
    /\ Top.node_id >= Len(offsets)
    /\ Fail("IndexError")
    /\ UNCHANGED <<content, self_content, cursor, records, warnings, hdr,
                   alloc, mast, hist, runs>>

\* line 416: the position of the block of entry e of the offset table
BlockPosition(e) == HeaderBase + BlockOffset(e)

\* lines 415-429: the master node, and the call on the root
EnterMaster ==
    /\ pc = "in_tree" /\ Top.pc = "enter" /\ Top.master
    /\ Top.node_id < Len(offsets)
    /\ LET c == BlockPosition(offsets[Top.node_id + 1])
           fifth == NextUint32(c + 16)
       IN /\ root_id' = NextUint32(c)
          /\ tree_height' = NextUint32(c + 4)
          /\ num_records' = NextUint32(c + 8)
          /\ num_nodes' = NextUint32(c + 12)
          /\ warnings' = warnings \cup
                (IF fifth # PageSize THEN {"master_fifth"} ELSE {})
          /\ cursor' = c + 20
          /\ shortRead' = (shortRead \/ IsShort(c, 20))
          /\ nodesRead' = nodesRead + 1
          /\ IF CanCall
             THEN /\ stack' = Append(SetTop([Top EXCEPT !.pc = "in_root"]),
                                     Frame(NextUint32(c), FALSE))
                  /\ UNCHANGED <<pc, err, failedAt>>
             ELSE Fail("RecursionError")
    /\ UNCHANGED <<content, self_content, records, hdr, alloc, emitted,
                   lastData, runs>>

\* lines 415-416 and 431-432: the header of an ordinary node
EnterNode ==
    /\ pc = "in_tree" /\ Top.pc = "enter" /\ ~Top.master
    /\ Top.node_id < Len(offsets)
    /\ LET c == BlockPosition(offsets[Top.node_id + 1])
       IN /\ stack' = SetTop([Top EXCEPT !.pc = "loop",
                                         !.next_id = NextUint32(c),
                                         !.num_records = NextUint32(c + 4)])
          /\ cursor' = c + 8
          /\ shortRead' = (shortRead \/ IsShort(c, 8))
          /\ nodesRead' = nodesRead + 1
    /\ UNCHANGED <<content, self_content, records, pc, err, failedAt, warnings, hdr,
                   alloc, mast, emitted, lastData, runs>>

\* line 434: an entry of this node is preceded by a child id
EntryHasChild(f) == f.next_id # 0
\* a walk that forgets the trailing child
HasTrailingChild_Never(f) == FALSE

\* line 452: this node ends with a walk of next_id
HasTrailingChild(f) == f.next_id # 0

\* lines 434-438: read the child id of the next entry and walk that child
DescendChild ==
    /\ pc = "in_tree" /\ Top.pc = "loop"
    /\ Top.i < Top.num_records /\ EntryHasChild(Top)
    /\ LET child_id == NextUint32(cursor)
       IN /\ cursor' = cursor + 4
          /\ shortRead' = (shortRead \/ IsShort(cursor, 4))
          /\ IF CanCall
             THEN /\ stack' = Append(
                        SetTop([Top EXCEPT !.pc = "in_child",
                                           !.current_cursor = cursor + 4]),
                        Frame(child_id, FALSE))
                  /\ UNCHANGED <<pc, err, failedAt>>
             ELSE Fail("RecursionError")
    /\ UNCHANGED <<content, self_content, records, warnings, hdr, alloc,
                   mast, emitted, lastData, nodesRead, runs>>

\* lines 441-450: read one entry and merge it into the records
ReadEntry ==
    /\ pc = "in_tree"
    /\ \/ Top.pc = "entry"
       \/ Top.pc = "loop" /\ Top.i < Top.num_records /\ ~EntryHasChild(Top)
    /\ LET c == cursor
           name_length == NextUint32(c)
           nameBytes == NextBytes(c + 4, 2 * name_length)
           c2 == c + 4 + 2 * name_length
           s2 == shortRead \/ IsShort(c, 4) \/ IsShort(c + 4, 2 * name_length)
           name == DecodeUtf16(nameBytes)
           fieldBytes == NextBytes(c2, 4)
           c3 == c2 + 4
           s3 == s2 \/ IsShort(c2, 4)
           d == ParseData(c3)
       IN IF ~name.ok THEN
              /\ Fail("UnicodeDecodeError")
              /\ cursor' = c2
              /\ shortRead' = s2
              /\ UNCHANGED <<records, emitted, lastData>>
          ELSE IF ~AsciiOk(fieldBytes) THEN
              /\ Fail("UnicodeDecodeError")
              /\ cursor' = c3
              /\ shortRead' = s3
              /\ UNCHANGED <<records, emitted, lastData>>
          ELSE
              /\ cursor' = d.cursor
              /\ shortRead' = (s3 \/ d.short)
              /\ lastData' = [start |-> c3, tag |-> NextBytes(c3, 4),
                              err |-> d.err, value |-> d.value,
                              end |-> d.cursor, count |-> Len(emitted)]
              /\ IF d.err # "none" THEN
                     /\ Fail(d.err)
                     /\ UNCHANGED <<records, emitted>>
                 ELSE
                     /\ records' = Insert(records, name.str, fieldBytes,
                                          d.value)
                     /\ emitted' = Append(emitted,
                                          <<name.str, fieldBytes, d.value>>)
                     /\ stack' = SetTop([Top EXCEPT
                                            !.pc = "loop",
                                            !.i = @ + 1,
                                            !.log = Append(@, "entry")])
                     /\ UNCHANGED <<pc, err, failedAt>>
    /\ UNCHANGED <<content, self_content, warnings, hdr, alloc, mast,
                   nodesRead, runs>>

\* lines 452-453: after the last entry, walk next_id
TrailingChild ==
    /\ pc = "in_tree" /\ Top.pc = "loop"
    /\ Top.i >= Top.num_records /\ HasTrailingChild(Top)
    /\ IF CanCall
       THEN /\ stack' = Append(SetTop([Top EXCEPT !.pc = "in_trailing"]),
                               Frame(Top.next_id, FALSE))
            /\ UNCHANGED <<pc, err, failedAt>>
       ELSE Fail("RecursionError")
    /\ UNCHANGED <<content, self_content, cursor, records, warnings, hdr,
                   alloc, mast, hist, runs>>

\* the end of the body of parse_tree for a node without a trailing child
FinishNode ==
    /\ pc = "in_tree" /\ Top.pc = "loop"
    /\ Top.i >= Top.num_records /\ ~HasTrailingChild(Top)
    /\ stack' = SetTop([Top EXCEPT !.pc = "return"])
    /\ UNCHANGED <<content, self_content, cursor, records, pc, err, failedAt,
                   warnings, hdr, alloc, mast, hist, runs>>

\* the caller's state when its callee returns: after line 438 the cursor is
\* restored (line 439) and the entry is read; lines 429 and 453 end the body
Resume(f) ==
    IF f.pc = "in_child"
    THEN [f EXCEPT !.pc = "entry", !.log = Append(@, "child")]
    ELSE IF f.pc = "in_trailing"
    THEN [f EXCEPT !.pc = "return", !.log = Append(@, "child")]
    ELSE [f EXCEPT !.pc = "return"]

\* a return that leaves the cursor where the callee stopped
RestoredCursor_Kept(caller) == cursor

\* line 439: the cursor of the caller when its callee has returned
RestoredCursor(caller) ==
    IF caller.pc = "in_child" THEN caller.current_cursor ELSE cursor

\* a call of parse_tree returns to its caller
Return ==
    /\ pc = "in_tree" /\ Top.pc = "return"
    /\ IF Len(stack) = 1
       THEN /\ stack' = <<>>
            /\ pc' = "done"
            /\ UNCHANGED cursor
       ELSE LET caller == stack[Len(stack) - 1]
            IN /\ stack' = [SubSeq(stack, 1, Len(stack) - 1)
                               EXCEPT ![Len(stack) - 1] = Resume(caller)]
               /\ cursor' = RestoredCursor(caller)
               /\ UNCHANGED pc
    /\ UNCHANGED <<content, self_content, records, err, failedAt, warnings, hdr,
                   alloc, mast, hist, runs>>


\* ------------------------------------------------------------------------
\* The input buffers: containers laid out as the decoder reads them
\* ------------------------------------------------------------------------
Pad(n) == [i \in 1..n |-> 0]
PadTo(bs, n) == bs \o Pad(n - Len(bs))
\* the four bytes next_uint32 reads n from
U32(n) == <<(n \div 16777216) % 256, (n \div 65536) % 256,
            (n \div 256) % 256, n % 256>>

\* blocks are BlockUnits * 32 bytes apart; block 0 is the allocator, which
\* lies behind the tree blocks ("tree_first") or before them ("tree_last")
BlockUnits == 4
BlockSize == 32 * BlockUnits
NumBlocks == 6
BlockIndex(layout, b) ==
    IF layout = "tree_first" THEN (IF b = 0 THEN NumBlocks ELSE b)
    ELSE (IF b = 0 THEN 1 ELSE 11 + b)
BlockAt(layout, b) == HeaderBase + BlockSize * BlockIndex(layout, b)
OffsetTable(layout) ==
    [i \in 1..NumBlocks |->
        BlockSize * BlockIndex(layout, i - 1) + (IF i = 1 THEN 11 ELSE 7)]

\* tag and payload of the sample values
Sample(s) ==
    CASE s = 1 -> T_bool \o <<1>>
      [] s = 2 -> T_bool \o <<2>>
      [] s = 3 -> T_shor \o <<0, 1, 0, 2>>
      [] s = 4 -> T_long \o <<0, 0, 0, 5>>
      [] s = 5 -> T_comp \o <<0, 0, 0, 0, 0, 0, 1, 2>>
      [] s = 6 -> T_dutc \o <<0, 0, 0, 0, 0, 1, 0, 0>>
      [] s = 7 -> T_type \o <<105, 99, 110, 118>>
      [] s = 8 -> T_blob \o U32(3) \o <<1, 2, 3>>
      [] s = 9 -> T_ustr \o U32(2) \o <<0, 97, 0, 98>>
      [] s = 10 -> <<102, 97, 107, 101>> \o <<1>>
      [] s = 11 -> <<98, 128, 111, 108>> \o <<1>>
      [] s = 12 -> T_type \o <<105, 200, 110, 118>>
      [] s = 13 -> T_ustr \o U32(1) \o <<216, 0>>
      [] s = 14 -> T_ustr \o U32(2) \o <<216, 61, 222, 0>>
      [] s = 15 -> T_blob \o U32(0)
      [] OTHER -> T_long \o U32(s)
NumSamples == 15

\* names (UTF-16BE) and field codes of the generated entries
Name(n) == U32(1) \o <<0, 96 + n>>
FieldCode(f) ==
    CASE f = 1 -> <<73, 108, 111, 99>>
      [] f = 2 -> <<118, 115, 116, 108>>
      [] OTHER -> <<66, 75, 71, 48 + f>>
Entry(n, f, s) == Name(n) \o FieldCode(f) \o Sample(s)

\* the j-th entry of a generated node: the first carries the sample value,
\* the later ones repeat or change the name and the field code
EntryOf(case, j) ==
    IF j = 1 THEN Entry(1, 1, case.sample)
    ELSE Entry(IF case.sameName THEN 1 ELSE j,
               IF case.sameField THEN 1 ELSE j,
               IF case.sample2 = 0 THEN 20 + j ELSE case.sample2)

RECURSIVE Entries(_, _, _)
Entries(case, j, k) ==
    IF j > k THEN <<>> ELSE EntryOf(case, j) \o Entries(case, j + 1, k)

\* the tree blocks 1..5 of a case
MasterBlock(root, height, n) ==
    U32(root) \o U32(height) \o U32(n) \o U32(1) \o U32(PageSize)
Node(next, k, body) == U32(next) \o U32(k) \o body

TreeBlocks(case) ==
    CASE case.tree = "leaf" ->
            <<MasterBlock(2, 0, case.k),
              Node(0, case.k, Entries(case, 1, case.k)),
              <<>>, <<>>, <<>>>>
      [] case.tree = "internal" ->
            <<MasterBlock(2, 1, 3),
              Node(4, 1, U32(3) \o Entry(2, 2, 4)),
              Node(0, 1, EntryOf(case, 1)),
              Node(0, 1, EntryOf(case, 3)),
              <<>>>>
      [] case.tree = "deep" ->
            <<MasterBlock(2, 2, 2),
              Node(3, 0, <<>>),
              Node(4, 1, U32(5) \o EntryOf(case, 2)),
              Node(0, 0, <<>>),
              Node(0, 1, EntryOf(case, 1))>>
      [] case.tree = "nested" ->
            <<MasterBlock(3, 2, 3),
              Node(0, 1, EntryOf(case, 3)),
              Node(4, 1, U32(5) \o Entry(2, 2, 4)),
              Node(0, 0, <<>>),
              Node(4, 1, U32(2) \o EntryOf(case, 1))>>
      [] case.tree = "cycle_next" ->
            <<MasterBlock(2, 1, 0), Node(2, 0, <<>>), <<>>, <<>>, <<>>>>
      [] case.tree = "cycle_child" ->
            <<MasterBlock(2, 1, 1),
              Node(3, 1, U32(2) \o EntryOf(case, 1)),
              Node(0, 0, <<>>), <<>>, <<>>>>
      [] case.tree = "cycle_master" ->
            <<MasterBlock(2, 0, 0), Node(1, 0, <<>>), <<>>, <<>>, <<>>>>
      [] case.tree = "bad_root" ->
            <<MasterBlock(NumBlocks + 1, 0, 0), <<>>, <<>>, <<>>, <<>>>>
      [] case.tree = "bad_child" ->
            <<MasterBlock(2, 1, 1),
              Node(3, 1, U32(NumBlocks) \o EntryOf(case, 1)),
              Node(0, 0, <<>>), <<>>, <<>>>>

\* the tables of contents of the cases
OtherKey == <<102, 114, 101, 101>>
BadKey == <<68, 200, 68, 66>>
TocEntry(key, id) == <<Len(key)>> \o key \o U32(id)
Toc(t) ==
    CASE t = 1 -> U32(1) \o TocEntry(DSDB, 1)
      [] t = 2 -> U32(0)
      [] t = 3 -> U32(2) \o TocEntry(OtherKey, 3) \o TocEntry(DSDB, 1)
      [] t = 4 -> U32(1) \o TocEntry(OtherKey, 3)
      [] t = 5 -> U32(1) \o TocEntry(BadKey, 1)
      [] t = 6 -> U32(2) \o TocEntry(DSDB, 4) \o TocEntry(DSDB, 1)
      [] t = 7 -> U32(2) \o TocEntry(DSDB, 1) \o TocEntry(OtherKey, 3)
      [] OTHER -> U32(2) \o TocEntry(OtherKey, t) \o TocEntry(DSDB, 1)
NumTocs == 7

RECURSIVE Concat(_)
Concat(ss) == IF ss = <<>> THEN <<>> ELSE ss[1] \o Concat(Tail(ss))

Header(case) ==
    U32(case.align) \o U32(case.magic)
    \o U32(BlockAt(case.layout, 0) - HeaderBase) \o U32(2048)
    \o U32(BlockAt(case.layout, 0) - HeaderBase + case.repeatDelta)

Allocator(case) ==
    PadTo(U32(NumBlocks) \o U32(case.second)
          \o Concat([i \in 1..NumBlocks |-> U32(OffsetTable(case.layout)[i])]),
          TocOffset)
    \o Toc(case.toc) \o Pad(4 * NumFreeLists)

Tree(case) ==
    LET blocks == TreeBlocks(case)
    IN Concat([b \in 1..Len(blocks) |-> PadTo(blocks[b], BlockSize)])

FullBuffer(case) ==
    IF case.layout = "tree_first"
    THEN PadTo(PadTo(Header(case), BlockAt(case.layout, 1)) \o Tree(case),
               BlockAt(case.layout, 0))
         \o Allocator(case)
    ELSE PadTo(PadTo(Header(case), BlockAt(case.layout, 0))
               \o Allocator(case),
               BlockAt(case.layout, 1))
         \o Tree(case)

\* the container of a case, cut to case.cut bytes when case.cut >= 0
Buffer(case) ==
    LET full == FullBuffer(case)
    IN IF case.cut >= 0 /\ case.cut < Len(full)
       THEN SubSeq(full, 1, case.cut) ELSE full

Base ==
    [align |-> 1, magic |-> MagicBud1, repeatDelta |-> 0, second |-> 0,
     toc |-> 1, tree |-> "leaf", k |-> MaxK, sample |-> 4, sample2 |-> 0,
     sameName |-> FALSE, sameField |-> FALSE, layout |-> "tree_first",
     cut |-> -1]

\* the places a container is cut at: in the header, the offset table, the
\* table of contents and the free lists (a cut at 6..11 makes the decoder
\* take the magic bytes for num_offsets and build an offset table of
\* millions of entries)
AllocatorCuts ==
    LET a == BlockAt("tree_first", 0)
    IN (0..5) \cup (12..20) \cup (a..(a + 32))
       \cup ((a + TocOffset - 1)..(a + TocOffset + 24))
\* and in the master block, the root node and its first child
TreeCuts ==
    LET m == BlockAt("tree_last", 1)
        r == BlockAt("tree_last", 2)
        c == BlockAt("tree_last", 3)
    IN (m..(m + 20)) \cup (r..(r + 52)) \cup (c..(c + 30))

Cases ==
    {[Base EXCEPT !.k = k, !.sample = s, !.sameName = n, !.sameField = f] :
        k \in 0..MaxK, s \in 1..NumSamples, n \in BOOLEAN, f \in BOOLEAN}
    \cup {[Base EXCEPT !.tree = t, !.sample = s, !.sameName = n,
                       !.sameField = f] :
        t \in {"internal", "deep", "nested"}, s \in {1, 4, 9, 10},
        n \in BOOLEAN, f \in BOOLEAN}
    \cup {[Base EXCEPT !.tree = t, !.sample2 = s] :
        t \in {"leaf", "deep"}, s \in {3, 10, 11, 12}}
    \cup {[Base EXCEPT !.tree = t] :
        t \in {"cycle_next", "cycle_child", "cycle_master", "bad_root",
               "bad_child"}}
    \cup {[Base EXCEPT !.align = a, !.magic = m, !.repeatDelta = r,
                       !.second = z] :
        a \in {1, 2}, m \in {MagicBud1, MagicBud1 + 1}, r \in {0, 32},
        z \in {0, 1}}
    \cup {[Base EXCEPT !.toc = t, !.tree = tr] :
        t \in 1..NumTocs, tr \in {"leaf", "internal"}}
    \cup {[Base EXCEPT !.cut = c, !.tree = tr, !.toc = t] :
        c \in AllocatorCuts, tr \in {"leaf", "internal"}, t \in {1, 3}}
    \cup {[Base EXCEPT !.layout = "tree_last", !.cut = c, !.tree = tr,
                       !.sample = s] :
        c \in TreeCuts \cup {-1}, tr \in {"leaf", "internal"},
        s \in {1, 5, 8, 9}}

Buffers == {Buffer(case) : case \in Cases}

\* ------------------------------------------------------------------------
\* DSStore(content): __init__ and the specification
\* ------------------------------------------------------------------------
NoData == [start |-> 0, tag |-> <<>>, err |-> "none", value |-> NoValue,
           end |-> 0, count |-> 0]
NoResult == [err |-> "none", records |-> <<>>]

\* lines 322-326, and the attributes not yet assigned
Construct ==
    /\ cursor = 0
    /\ records = <<>>
    /\ pc = "parse_header"
    /\ err = "none"
    /\ failedAt = "none"
    /\ warnings = {}
    /\ allocator_offset = 0 /\ allocator_length = 0
    /\ offsets = <<>> /\ directory = <<>> /\ master_id = 0
    /\ freelist = <<>>
    /\ root_id = 0 /\ tree_height = 0 /\ num_records = 0 /\ num_nodes = 0
    /\ stack = <<>>
    /\ shortRead = FALSE /\ emitted = <<>> /\ lastData = NoData
    /\ nodesRead = 0

\* lines 493-495: the file is read into the module-level content and decoded
Init ==
    /\ content \in Buffers
    /\ self_content = content
    /\ Construct
    /\ run = 1 /\ firstResult = NoResult

Next ==
    \/ ParseHeader
    \/ AllocatorOffsets
    \/ AllocatorDirectory
    \/ AllocatorFreelist
    \/ CallParseTree
    \/ EnterBadBlock
    \/ EnterMaster
    \/ EnterNode
    \/ DescendChild
    \/ ReadEntry
    \/ TrailingChild
    \/ FinishNode
    \/ Return

Spec == Init /\ [][Next]_vars

\* ------------------------------------------------------------------------
\* A second decode of the same buffer, nested in another program run
\* ------------------------------------------------------------------------
\* what DSStore(content) gives its caller: the records, or the exception
Outcome ==
    IF pc = "done" THEN [err |-> "none", records |-> records]
    ELSE [err |-> err, records |-> <<>>]

\* the containers decoded twice, and the files loaded at module level
NestedCases ==
    {[Base EXCEPT !.tree = t, !.sample = s] :
        t \in {"leaf", "internal", "bad_root"}, s \in {1, 9}}
OuterCases ==
    {[Base EXCEPT !.tree = t, !.sample = s, !.layout = l] :
        t \in {"leaf", "deep"}, s \in {4, 10},
        l \in {"tree_first", "tree_last"}}

InitNested ==
    /\ content \in {Buffer(case) : case \in NestedCases}
    /\ self_content = content
    /\ Construct
    /\ run = 1 /\ firstResult = NoResult

\* lines 43-45 and 493-495: another file is loaded into the module-level
\* content, and show_bytes decodes the same container with DSStore(...)
NestedDecode ==
    /\ run = 1
    /\ pc \in {"done", "failed"}
    /\ firstResult' = Outcome
    /\ run' = 2
    /\ content' \in {Buffer(case) : case \in OuterCases}
    /\ UNCHANGED self_content
    /\ cursor' = 0
    /\ records' = <<>>
    /\ pc' = "parse_header"
    /\ err' = "none"
    /\ failedAt' = "none"
    /\ warnings' = {}
    /\ allocator_offset' = 0 /\ allocator_length' = 0
    /\ offsets' = <<>> /\ directory' = <<>> /\ master_id' = 0
    /\ freelist' = <<>>
    /\ root_id' = 0 /\ tree_height' = 0 /\ num_records' = 0
    /\ num_nodes' = 0
    /\ stack' = <<>>
    /\ shortRead' = FALSE /\ emitted' = <<>> /\ lastData' = NoData
    /\ nodesRead' = 0

NextNested == Next \/ NestedDecode

SpecNested == InitNested /\ [][NextNested]_vars


\* ========================================================================
\* Properties
\* ========================================================================

\* C1: whenever a read was given fewer bytes than it asked for, the decode
\* has aborted with the out-of-bounds error (IndexError); it never goes on
\* with a shortened or zero value.
C1_ShortReadAborts == shortRead => (pc = "failed" /\ err = "IndexError")

\* C2: once the table of contents has been read completely: if it holds a
\* 'DSDB' key, the allocator stage does not fail and master_id is the block
\* id stored under 'DSDB'; if it lacks 'DSDB', the decode has failed with
\* the missing-master-block error (ValueError) before any tree node was
\* read, and with no record.
TocReadCompletely ==
    /\ pc \notin {"parse_header", "allocator_offsets", "allocator_directory"}
    /\ ~(failedAt = "allocator_directory"
         /\ err \in {"IndexError", "UnicodeDecodeError"})

WalkPattern(next_id, k) ==
    IF next_id # 0
    THEN [j \in 1..(2 * k + 1) |-> IF j % 2 = 1 THEN "child" ELSE "entry"]
    ELSE [j \in 1..k |-> "entry"]

IsPrefix(a, b) == Len(a) <= Len(b) /\ a = SubSeq(b, 1, Len(a))

C3_NodeWalk ==
    \A d \in 1..Len(stack) :
        LET f == stack[d]
        IN (~f.master /\ f.pc # "enter") =>
              /\ IsPrefix(f.log, WalkPattern(f.next_id, f.num_records))
              /\ f.pc = "return" =>
                    /\ f.log = WalkPattern(f.next_id, f.num_records)
                    /\ f.i = f.num_records

\* reached: an internal node with an entry is about to return
C3_Witness ==
    /\ stack # <<>>
    /\ Top.pc = "return" /\ ~Top.master
    /\ Top.next_id # 0 /\ Top.num_records >= 1
    /\ Len(Top.log) = 2 * Top.num_records + 1

\* C4: the records are the fold of the emitted triples: one record per
\* distinct name, in the order of the names' first occurrences, each
\* mapping the field codes emitted for its name to the value of the last
\* triple with that name and field code.
FirstOccurrences(em) ==
    {i \in 1..Len(em) : \A j \in 1..(i - 1) : em[j][1] # em[i][1]}
LastValue(em, name, field) ==
    LET last == CHOOSE i \in 1..Len(em) :
                    /\ em[i][1] = name /\ em[i][2] = field
                    /\ \A j \in (i + 1)..Len(em) :
                          ~(em[j][1] = name /\ em[j][2] = field)
    IN em[last][3]

C4_RecordSetIsFold ==
    /\ Len(records) = Cardinality(FirstOccurrences(emitted))
    /\ \A r \in 1..Len(records) :
          \E i \in FirstOccurrences(emitted) :
             /\ Cardinality({j \in FirstOccurrences(emitted) : j < i}) = r - 1
             /\ records[r].name = emitted[i][1]
    /\ \A r \in 1..Len(records) :
          LET fs == records[r].fields
          IN /\ {fs[x][1] : x \in 1..Len(fs)}
                   = {emitted[i][2] : i \in {j \in 1..Len(emitted) :
                                               emitted[j][1] = records[r].name}}
             /\ \A x, y \in 1..Len(fs) : fs[x][1] = fs[y][1] => x = y
             /\ \A x \in 1..Len(fs) :
                   fs[x][2] = LastValue(emitted, records[r].name, fs[x][1])

\* reached: three triples, the first and the third with the same name and
\* another name between them, merged into two records
C4_Witness ==
    /\ Len(emitted) = 3
    /\ emitted[1][1] = emitted[3][1]
    /\ emitted[2][1] # emitted[1][1]
    /\ Len(records) = 2


\* C5: an entry whose 4-byte type tag is a tag (ASCII text) and none of the
\* eight known tags ends the decode with the unsupported-value-type error
\* (NotImplementedError) at that entry: no value is returned, no triple is
\* added for it and nothing more is read.
KnownTags == {T_bool, T_shor, T_long, T_comp, T_dutc, T_type, T_blob, T_ustr}

B(p) == content[p + 1]
BE4(p) == ((B(p) * 256 + B(p + 1)) * 256 + B(p + 2)) * 256 + B(p + 3)
BE8(p) ==
    ((((((B(p) * 256 + B(p + 1)) * 256 + B(p + 2)) * 256 + B(p + 3)) * 256
        + B(p + 4)) * 256 + B(p + 5)) * 256 + B(p + 6)) * 256 + B(p + 7)
Bytes(p, n) == [j \in 1..n |-> B(p + j - 1)]

\* the payload size of the table for the tag, the payload starting at p
TablePayloadSize(tag, p) ==
    IF tag = T_bool THEN 1
    ELSE IF tag \in {T_shor, T_long, T_type} THEN 4
    ELSE IF tag \in {T_comp, T_dutc} THEN 8
    ELSE IF tag = T_blob THEN 4 + BE4(p)
    ELSE 4 + 2 * BE4(p)

CorrectlySized(tag, p) ==
    /\ tag \in KnownTags
    /\ tag \in {T_blob, T_ustr} => p + 4 <= Len(content)
    /\ p + TablePayloadSize(tag, p) <= Len(content)

\* UTF-16: a high surrogate is followed by a low one, a low one follows a
\* high one
WellFormedUnits(us) ==
    /\ \A i \in 1..Len(us) :
          IsHighSurrogate(us[i]) => i < Len(us) /\ IsLowSurrogate(us[i + 1])
    /\ \A i \in 1..Len(us) :
          IsLowSurrogate(us[i]) => i > 1 /\ IsHighSurrogate(us[i - 1])

RECURSIVE EncodeUtf16(_)
EncodeUtf16(str) ==
    IF str = <<>> THEN <<>>
    ELSE LET cp == str[1]
             units == IF cp < 65536 THEN <<cp>>
                      ELSE <<55296 + ((cp - 65536) \div 1024),
                             56320 + ((cp - 65536) % 1024)>>
         IN Concat([i \in 1..Len(units) |->
                        <<units[i] \div 256, units[i] % 256>>])
            \o EncodeUtf16(Tail(str))

DenotesValue(tag, p) ==
    /\ tag = T_type => \A j \in 0..3 : B(p + j) < 128
    /\ tag = T_ustr =>
          WellFormedUnits([j \in 1..BE4(p) |->
                              B(p + 4 + 2 * (j - 1)) * 256
                              + B(p + 5 + 2 * (j - 1))])

IsTableValue(v, tag, p) ==
    IF tag = T_bool THEN v = BoolValue(IF B(p) % 2 = 1 THEN 1 ELSE 0)
    ELSE IF tag \in {T_shor, T_long} THEN v = IntValue(BE4(p))
    ELSE IF tag \in {T_comp, T_dutc} THEN v = IntValue(BE8(p))
    ELSE IF tag = T_type THEN v = StrValue(Bytes(p, 4))
    ELSE IF tag = T_blob THEN v = BytesValue(Bytes(p + 4, BE4(p)))
    ELSE /\ v.type = "str"
         /\ EncodeUtf16(v.val) = Bytes(p + 4, 2 * BE4(p))

C7_HeaderTolerant ==
    (pc # "parse_header" /\ Len(content) >= 20) =>
        /\ allocator_offset = 4 + BE4(8)
        /\ failedAt # "parse_header"
        /\ "alignment" \in warnings <=> BE4(0) # 1
        /\ "magic" \in warnings <=> BE4(4) # MagicBud1
        /\ "offset_repeat" \in warnings <=> BE4(16) # BE4(8)
        /\ pc = "allocator_directory" =>
              cursor = 4 + BE4(8) + 8 + 4 * Len(offsets)

\* reached: the header had all three mismatches and the allocator is next
C7_Witness ==
    /\ pc = "allocator_offsets"
    /\ warnings = {"alignment", "magic", "offset_repeat"}
    /\ BE4(16) # BE4(8)

\* C8: a decode that does not complete fails with one of the three fatal
\* kinds (IndexError, ValueError of the missing 'DSDB', NotImplementedError)
\* and returns no result.
C8_ThreeFatalKinds ==
    pc = "failed" =>
        /\ err \in {"IndexError", "ValueError", "NotImplementedError"}
        /\ err = "ValueError" => failedAt = "allocator_directory"
        /\ Outcome.records = <<>>

\* C9: the recursion depth of the tree walk (the levels below the root)
\* never exceeds the tree_height read from the master node, here for the
\* buffers that serve every read in full.
C9_DepthWithinHeight ==
    (pc = "in_tree" /\ Len(stack) >= 2 /\ ~shortRead) =>
        Len(stack) - 2 <= tree_height

\* C10: a second decode of the same buffer, with another buffer loaded at
\* module level, ends with the same records or the same error as the first.
C10_PureFunctionOfBuffer ==
    (run = 2 /\ pc \in {"done", "failed"}) => Outcome = firstResult


\* C11: the cursor stays within the buffer: whenever a read or a seek has
\* left it behind the end of the buffer, the decode has failed.
C11_CursorInBuffer ==
    /\ cursor >= 0
    /\ cursor > Len(content) => pc = "failed"


\* C12: when the walk of a per-entry child returns, the cursor is the
\* position right behind that entry's child id in the parent's block,
\* whatever the child subtree read and wherever its blocks lie: the entries
\* of a node are read from consecutive positions of the node's own block
\* (here computed from the bytes of the block, for buffers that serve every
\* read in full), and no step of a callee changes the node id, next_id,
\* entry count, entry index or saved cursor of a waiting caller.
\* the end of the entry (name, field code, typed value) that starts at p
EntryEnd(p) ==
    LET tagAt == p + 4 + 2 * BE4(p) + 4
    IN tagAt + 4 + TablePayloadSize(Bytes(tagAt, 4), tagAt + 4)

\* the position of entry j (from 0) of the node of call f in its block
RECURSIVE EntryStart(_, _)
EntryStart(f, j) ==
    IF j = 0 THEN HeaderBase + (offsets[f.node_id + 1] \div 32) * 32 + 8
    ELSE EntryEnd(EntryStart(f, j - 1) + (IF f.next_id # 0 THEN 4 ELSE 0))

CursorInOwnBlock ==
    (pc = "in_tree" /\ ~Top.master) =>
        /\ Top.pc = "entry" => cursor = Top.current_cursor
        /\ (Top.pc = "entry" /\ ~shortRead) =>
              cursor = EntryStart(Top, Top.i) + 4
        /\ (Top.pc = "loop" /\ ~shortRead) => cursor = EntryStart(Top, Top.i)

CallersKept ==
    \A d \in 1..(Len(stack) - 1) :
        (pc' = "in_tree" /\ d <= Len(stack')) =>
            /\ stack'[d].node_id = stack[d].node_id
            /\ stack'[d].next_id = stack[d].next_id
            /\ stack'[d].num_records = stack[d].num_records
            /\ stack'[d].i = stack[d].i
            /\ stack'[d].current_cursor = stack[d].current_cursor

C12_CursorDiscipline == []CursorInOwnBlock /\ [][CallersKept]_vars

\* reached: the root's child, an internal node whose blocks lie before and
\* behind the root's block, has returned after two triples, and the root's
\* entry is read next
C12_Witness ==
    /\ pc = "in_tree" /\ Len(stack) = 2 /\ ~shortRead
    /\ Top.pc = "entry" /\ Top.node_id = 3 /\ Top.i = 0
    /\ Len(emitted) = 2 /\ nodesRead >= 5
    /\ cursor = Top.current_cursor
    /\ cursor = EntryStart(Top, 0) + 4

====
